---- MODULE Spec2Model ----
(***************************************************************************)
(* nm-file-secret-agent: a NetworkManager secret agent answering           *)
(* GetSecrets from files configured by match rules.                        *)
(*                                                                         *)
(* Modelled generation: src/src/dbus.rs (bus side), src/src/mapping.rs     *)
(* (get_secret and the encoders), src/src/config.rs (the mapping store).   *)
(*                                                                         *)
(* Conventions                                                             *)
(*   Option<T>      a set with at most one element: None == {}, Some(v)    *)
(*                  == {v}                                                 *)
(*   String key     a sequence of tokens; the token "." is the dot, so     *)
(*                  that split(".") is computed and not assumed            *)
(*   HashMap<K,V>   a function whose DOMAIN is the key set                 *)
(*   Variant        [t |-> "s", v |-> string] for a string, any other t    *)
(*                  for a value that as_str() does not accept              *)
(***************************************************************************)
EXTENDS Integers, Sequences, FiniteSets, TLC

VARIABLES
    phase,            \* position of run(): Start, Seeding, Seeded, Registered, Subscribed, Serving,
                      \* Reregistering, Failed, Crashed
    known_nm_names,   \* ServerObj.known_nm_names
    entries,          \* ServerObj.agent_config.entries
    nmOwner,          \* the bus: current owner of org.freedesktop.NetworkManager ("" = none)
    signals,          \* the bus: NameOwnerChanged signals queued for this connection
    regCalls,         \* number of RegisterWithCapabilities calls sent so far
    lastSignal,       \* the last signal handed to the match_signal callback, with the state before
    call,             \* the last inbound call (or pure-function application) and its inputs
    reply,            \* what that call produced
    lock              \* the RwLock around known_nm_names: "free", "read" or "write"

vars == <<phase, known_nm_names, entries, nmOwner, signals, regCalls, lastSignal, call, reply, lock>>

----------------------------------------------------------------------------
(* Bounds of the model *)

\* longest mapping store drawn for the matching specification
MaxMatchEntries == 2
\* longest mapping store drawn for the fetch specification
MaxEntries == 2
\* longest queue of undelivered NameOwnerChanged signals
MaxSignals == 1
\* cap on the registration-call counter
MaxRegCalls == 2
\* longest secret list handed to an encoder in the encoding specification
MaxSecrets == 3

----------------------------------------------------------------------------
(* Option<T> *)

None == {}
Some(v) == {v}

\* Option::is_some_and(|val| val != other)
is_some_and_ne(opt, other) == \E val \in opt : val # other

----------------------------------------------------------------------------
(* config.rs: the mapping store *)

MappingEntry(mid, muuid, mtype, miface, msetting, key, file) ==
    [match_id |-> mid, match_uuid |-> muuid, match_type |-> mtype,
     match_iface |-> miface, match_setting |-> msetting, key |-> key, file |-> file]

\* the closure handed to filter(): config.rs 62-101
entry_matches(entry, conn_id, conn_uuid, conn_type, iface_name, setting_name) ==
    IF is_some_and_ne(entry.match_id, conn_id) THEN FALSE
    ELSE IF is_some_and_ne(entry.match_uuid, conn_uuid) THEN FALSE
    ELSE IF is_some_and_ne(entry.match_type, conn_type) THEN FALSE
    ELSE IF \E iface \in iface_name : is_some_and_ne(entry.match_iface, iface) THEN FALSE
    ELSE IF is_some_and_ne(entry.match_setting, setting_name) THEN FALSE
    ELSE TRUE

\* self.entries.iter().filter(..).cloned().collect(): one pass, pushing in iteration order
RECURSIVE iter_filter_collect(_, _, _, _, _, _)
iter_filter_collect(es, conn_id, conn_uuid, conn_type, iface_name, setting_name) ==
    IF Len(es) = 0 THEN <<>>
    ELSE LET rest == iter_filter_collect(Tail(es), conn_id, conn_uuid, conn_type,
                                         iface_name, setting_name)
         IN  IF entry_matches(Head(es), conn_id, conn_uuid, conn_type, iface_name, setting_name)
             THEN <<Head(es)>> \o rest
             ELSE rest

\* [mutant] a collect that pushes to the front: the result comes out in reverse order
RECURSIVE iter_filter_collect_rev(_, _, _, _, _, _)
iter_filter_collect_rev(es, conn_id, conn_uuid, conn_type, iface_name, setting_name) ==
    IF Len(es) = 0 THEN <<>>
    ELSE LET rest == iter_filter_collect_rev(Tail(es), conn_id, conn_uuid, conn_type,
                                             iface_name, setting_name)
         IN  IF entry_matches(Head(es), conn_id, conn_uuid, conn_type, iface_name, setting_name)
             THEN rest \o <<Head(es)>>
             ELSE rest

find_matching_secrets_rev(es, conn_id, conn_uuid, conn_type, iface_name, setting_name) ==
    iter_filter_collect_rev(es, conn_id, conn_uuid, conn_type, iface_name, setting_name)

\* AgentConfig::find_matching_secrets
find_matching_secrets(es, conn_id, conn_uuid, conn_type, iface_name, setting_name) ==
    iter_filter_collect(es, conn_id, conn_uuid, conn_type, iface_name, setting_name)

\* all stores of at most n entries drawn from pool
Stores(pool, n) == UNION { [1..k -> pool] : k \in 0..n }

----------------------------------------------------------------------------
(* Strings that get split or compared with split results: token sequences *)

Dot == "."

\* str::split("."): the segments between the dots, each a token sequence ("" is <<>>)
RECURSIVE split_dot(_)
split_dot(key) ==
    IF \A i \in 1..Len(key) : key[i] # Dot THEN <<key>>
    ELSE LET i == CHOOSE i \in 1..Len(key) :
                      key[i] = Dot /\ \A j \in 1..(i - 1) : key[j] # Dot
         IN  <<SubSeq(key, 1, i - 1)>> \o split_dot(SubSeq(key, i + 1, Len(key)))

\* the slice pattern ["peers", pubkey, subkey]
is_peer_key(key) ==
    LET keyparts == split_dot(key)
    IN  Len(keyparts) = 3 /\ keyparts[1] = <<"peers">>

\* [mutant] the flags are compared as a whole: only the value b itself has the bit
bit_and_whole(a, b) == IF a = b THEN b ELSE 0

\* u32 bitwise and
RECURSIVE bit_and(_, _)
bit_and(a, b) ==
    IF a = 0 \/ b = 0 THEN 0
    ELSE (a % 2) * (b % 2) + 2 * bit_and(a \div 2, b \div 2)

\* GetSecretsFlags::RequestNew
RequestNew == 2

----------------------------------------------------------------------------
(* Variants and property maps *)

StrVariant(s) == [t |-> "s", v |-> s]
PeersVariant(list) == [t |-> "aa{sv}", v |-> list]

\* RefArg::as_str(): Some for a string, None for anything else
as_str(variant) == IF variant.t = "s" THEN Some(variant.v) ELSE None

EmptyMap == <<>>

\* the value a HashMap holds for key k after inserting secrets' (key, value) pairs in
\* order: the last one inserted wins
last_value(secrets, idx) ==
    secrets[CHOOSE i \in idx : \A j \in idx : j <= i].value

----------------------------------------------------------------------------
(* mapping.rs: the encoders *)

\* encode_generic_secrets
encode_generic_secrets(secrets) ==
    LET keys == { secrets[i].key : i \in 1..Len(secrets) }
        map  == [k \in keys |->
                    StrVariant(last_value(secrets, {i \in 1..Len(secrets) : secrets[i].key = k}))]
    IN  [props |-> map, inserted_keys |-> DOMAIN map]

\* [mutant] public-key is only filled in for a peer that has no such subkey configured
encode_wireguard_secrets_or_insert(secrets, hash_order) ==
    LET n        == Len(secrets)
        peerIdx  == { i \in 1..n : is_peer_key(secrets[i].key) }
        plainIdx == (1..n) \ peerIdx
        pubkey(i) == split_dot(secrets[i].key)[2]
        subkey(i) == split_dot(secrets[i].key)[3]
        pubkeys  == { pubkey(i) : i \in peerIdx }
        peers    == [pk \in pubkeys |->
                       [sk \in { subkey(i) : i \in { j \in peerIdx : pubkey(j) = pk } } |->
                           last_value(secrets,
                               { i \in peerIdx : pubkey(i) = pk /\ subkey(i) = sk })]]
        props0   == [k \in { secrets[i].key : i \in plainIdx } |->
                       StrVariant(last_value(secrets, { i \in plainIdx : secrets[i].key = k }))]
        propmap(pk) == [sk \in (DOMAIN peers[pk]) \cup {<<"public-key">>} |->
                          IF sk \in DOMAIN peers[pk] THEN StrVariant(peers[pk][sk])
                          ELSE StrVariant(pk)]
        present  == SelectSeq(hash_order, LAMBDA pk : pk \in pubkeys)
        peerlist == [i \in 1..Len(present) |-> propmap(present[i])]
        props    == IF pubkeys # {}
                    THEN [k \in (DOMAIN props0) \cup {<<"peers">>} |->
                            IF k = <<"peers">> THEN PeersVariant(peerlist) ELSE props0[k]]
                    ELSE props0
    IN  [props |-> props, inserted_keys |-> { secrets[i].key : i \in 1..n }]

\* [mutant] the peer list does not replace a "peers" property that is already there
encode_wireguard_secrets_keep_peers(secrets, hash_order) ==
    LET n        == Len(secrets)
        peerIdx  == { i \in 1..n : is_peer_key(secrets[i].key) }
        plainIdx == (1..n) \ peerIdx
        pubkey(i) == split_dot(secrets[i].key)[2]
        subkey(i) == split_dot(secrets[i].key)[3]
        pubkeys  == { pubkey(i) : i \in peerIdx }
        peers    == [pk \in pubkeys |->
                       [sk \in { subkey(i) : i \in { j \in peerIdx : pubkey(j) = pk } } |->
                           last_value(secrets,
                               { i \in peerIdx : pubkey(i) = pk /\ subkey(i) = sk })]]
        props0   == [k \in { secrets[i].key : i \in plainIdx } |->
                       StrVariant(last_value(secrets, { i \in plainIdx : secrets[i].key = k }))]
        propmap(pk) == [sk \in (DOMAIN peers[pk]) \cup {<<"public-key">>} |->
                          IF sk = <<"public-key">> THEN StrVariant(pk)
                          ELSE StrVariant(peers[pk][sk])]
        present  == SelectSeq(hash_order, LAMBDA pk : pk \in pubkeys)
        peerlist == [i \in 1..Len(present) |-> propmap(present[i])]
        props    == IF pubkeys # {}
                    THEN [k \in (DOMAIN props0) \cup {<<"peers">>} |->
                            IF k \in DOMAIN props0 THEN props0[k] ELSE PeersVariant(peerlist)]
                    ELSE props0
    IN  [props |-> props, inserted_keys |-> { secrets[i].key : i \in 1..n }]

\* encode_wireguard_secrets; hash_order is the order in which this run's HashMap of
\* peers iterates: a sequence holding every public key once
encode_wireguard_secrets(secrets, hash_order) ==
    LET n        == Len(secrets)
        peerIdx  == { i \in 1..n : is_peer_key(secrets[i].key) }
        plainIdx == (1..n) \ peerIdx
        pubkey(i) == split_dot(secrets[i].key)[2]
        subkey(i) == split_dot(secrets[i].key)[3]
        pubkeys  == { pubkey(i) : i \in peerIdx }
        \* peers: HashMap<pubkey, HashMap<subkey, value>>
        peers    == [pk \in pubkeys |->
                       [sk \in { subkey(i) : i \in { j \in peerIdx : pubkey(j) = pk } } |->
                           last_value(secrets,
                               { i \in peerIdx : pubkey(i) = pk /\ subkey(i) = sk })]]
        props0   == [k \in { secrets[i].key : i \in plainIdx } |->
                       StrVariant(last_value(secrets, { i \in plainIdx : secrets[i].key = k }))]
        \* one peer's propmap: its values, then insert("public-key", pubkey)
        propmap(pk) == [sk \in (DOMAIN peers[pk]) \cup {<<"public-key">>} |->
                          IF sk = <<"public-key">> THEN StrVariant(pk)
                          ELSE StrVariant(peers[pk][sk])]
        present  == SelectSeq(hash_order, LAMBDA pk : pk \in pubkeys)
        peerlist == [i \in 1..Len(present) |-> propmap(present[i])]
        props    == IF pubkeys # {}
                    THEN [k \in (DOMAIN props0) \cup {<<"peers">>} |->
                            IF k = <<"peers">> THEN PeersVariant(peerlist) ELSE props0[k]]
                    ELSE props0
    IN  [props |-> props, inserted_keys |-> { secrets[i].key : i \in 1..n }]

\* [mutant] the setting name is compared without regard to case
encode_nocase(requested_setting, secrets, hash_order) ==
    IF requested_setting \in {"wireguard", "Wireguard", "WIREGUARD"}
    THEN encode_wireguard_secrets(secrets, hash_order)
    ELSE encode_generic_secrets(secrets)

\* mapping.rs 107-110: the encoder is chosen by the setting name
encode(requested_setting, secrets, hash_order) ==
    IF requested_setting = "wireguard"
    THEN encode_wireguard_secrets(secrets, hash_order)
    ELSE encode_generic_secrets(secrets)

----------------------------------------------------------------------------
(* config.rs / mapping.rs: reading the secret files *)

\* what read_to_string() yields for a readable file (opaque text)
file_content(file) == <<"content of", file>>

\* MappingEntry::read: Some(content), or None when open/read fails
read(entry, readable) ==
    IF entry.file \in readable THEN Some(file_content(entry.file)) ELSE None

\* .map(|i| i.to_owned().try_into()).collect::<anyhow::Result<Vec<Secret>>>():
\* lazy, stops at the first Err; reads lists the files opened, in order
RECURSIVE collect_secrets(_, _)
collect_secrets(matched, readable) ==
    IF Len(matched) = 0 THEN [ok |-> TRUE, secrets |-> <<>>, reads |-> <<>>]
    ELSE LET entry == Head(matched)
             got   == read(entry, readable)
         IN  IF got = None
             THEN [ok |-> FALSE, secrets |-> <<>>, reads |-> <<entry.file>>]
             ELSE LET rest == collect_secrets(Tail(matched), readable)
                      value == CHOOSE c \in got : TRUE
                  IN  [ok      |-> rest.ok,
                       secrets |-> IF rest.ok
                                   THEN <<[key |-> entry.key, value |-> value]>> \o rest.secrets
                                   ELSE <<>>,
                       reads   |-> <<entry.file>> \o rest.reads]

\* [mutant] a best-effort collect: unreadable sources are skipped and the rest returned
RECURSIVE collect_secrets_skip(_, _)
collect_secrets_skip(matched, readable) ==
    IF Len(matched) = 0 THEN [ok |-> TRUE, secrets |-> <<>>, reads |-> <<>>]
    ELSE LET entry == Head(matched)
             got   == read(entry, readable)
             rest  == collect_secrets_skip(Tail(matched), readable)
         IN  [ok      |-> TRUE,
              secrets |-> IF got = None THEN rest.secrets
                          ELSE <<[key |-> entry.key, value |-> CHOOSE c \in got : TRUE]>>
                               \o rest.secrets,
              reads   |-> <<entry.file>> \o rest.reads]

read_matched_skip(matched, readable) == collect_secrets_skip(matched, readable)

\* mapping.rs 90-96: the matched entries turned into secrets
read_matched(matched, readable) == collect_secrets(matched, readable)

----------------------------------------------------------------------------
(* mapping.rs: get_secret *)

\* what a call did besides answering: profile fields extracted, store searched, files opened
NoWork == [extracted |-> FALSE, searched |-> FALSE, reads |-> <<>>]

Outcome(status, error, result, warned, work) ==
    [status |-> status, error |-> error, result |-> result, warned |-> warned, work |-> work]

\* [mutant] no early return: an empty secret list is encoded like any other
build_result_always(requested_setting, secrets, hash_order) ==
    LET enc == encode(requested_setting, secrets, hash_order)
    IN  [result |-> (requested_setting :> enc.props), inserted_keys |-> enc.inserted_keys]

\* mapping.rs 98-113: the early return on no secrets, else the encoder by setting name
\* and the one-entry NestedSettingsMap
build_result(requested_setting, secrets, hash_order) ==
    IF Len(secrets) = 0
    THEN [result |-> EmptyMap, inserted_keys |-> {}]
    ELSE LET enc == encode(requested_setting, secrets, hash_order)
         IN  [result |-> (requested_setting :> enc.props), inserted_keys |-> enc.inserted_keys]

\* mapping.rs 83-125, once the profile fields are extracted
resolve(es, conn_id, conn_uuid, conn_type, iface_name, requested_setting, hints, flags, readable, hash_order) ==
    IF bit_and(flags, RequestNew) = RequestNew
    THEN Outcome("Err", "UnsupportedFlag", EmptyMap, {},
                 [extracted |-> TRUE, searched |-> FALSE, reads |-> <<>>])
    ELSE LET matched == find_matching_secrets(es, conn_id, conn_uuid, conn_type,
                                              iface_name, requested_setting)
             got     == read_matched(matched, readable)
             work    == [extracted |-> TRUE, searched |-> TRUE, reads |-> got.reads]
         IN  IF ~got.ok
             THEN Outcome("Err", "SourceUnreadable", EmptyMap, {}, work)
             ELSE LET built == build_result(requested_setting, got.secrets, hash_order)
                      \* the hints warned about (never when the early return was taken)
                      warned == IF Len(got.secrets) = 0 THEN {}
                                ELSE { hints[i] : i \in { j \in 1..Len(hints) :
                                                          hints[j] \notin built.inserted_keys } }
                  IN  Outcome("Ok", "", built.result, warned, work)

\* HashMap Index: connection_profile[k] panics when k is not a key
Panic == Outcome("Panic", "", EmptyMap, {}, [extracted |-> TRUE, searched |-> FALSE, reads |-> <<>>])
Malformed == Outcome("Err", "MalformedRequest", EmptyMap, {},
                     [extracted |-> TRUE, searched |-> FALSE, reads |-> <<>>])

\* get_secret: mapping.rs 42-134
get_secret(es, connection_profile, requested_setting, hints, flags, readable, hash_order) ==
    IF "connection" \notin DOMAIN connection_profile THEN Panic
    ELSE LET connection == connection_profile["connection"] IN
    IF "id" \notin DOMAIN connection THEN Panic
    ELSE IF as_str(connection["id"]) = None THEN Malformed
    ELSE IF "uuid" \notin DOMAIN connection THEN Panic
    ELSE IF as_str(connection["uuid"]) = None THEN Malformed
    ELSE IF "type" \notin DOMAIN connection THEN Panic
    ELSE IF as_str(connection["type"]) = None THEN Malformed
    ELSE IF "interface-name" \in DOMAIN connection
            /\ as_str(connection["interface-name"]) = None THEN Malformed
    ELSE LET conn_id    == connection["id"].v
             conn_uuid  == connection["uuid"].v
             conn_type  == connection["type"].v
             iface_name == IF "interface-name" \in DOMAIN connection
                           THEN as_str(connection["interface-name"])
                           ELSE None
         IN  resolve(es, conn_id, conn_uuid, conn_type, iface_name, requested_setting,
                     hints, flags, readable, hash_order)

----------------------------------------------------------------------------
(* dbus.rs: the bus side *)

NM_NAME == "org.freedesktop.NetworkManager"

\* [mutant] a check that lets a call without a sender through
verify_access_lax(known, sender) ==
    IF sender = None THEN TRUE
    ELSE \E s \in sender : \E i \in known : i = s

\* verify_access: TRUE for Ok(()), FALSE for Err("Access Denied")
verify_access(known, sender) ==
    IF sender = None THEN FALSE
    ELSE \E s \in sender : \E i \in known : i = s

AccessDenied == Outcome("Err", "AccessDenied", EmptyMap, {}, NoWork)
Acknowledged == Outcome("Ok", "", EmptyMap, {}, NoWork)

\* [mutant] the resolution runs first and the sender is checked on the way out
GetSecretsHandler_late(known, es, sender, connection, setting_name, hints, flags, readable, hash_order) ==
    LET out == get_secret(es, connection, setting_name, hints, flags, readable, hash_order)
    IN  IF out.status = "Panic" THEN out
        ELSE IF ~verify_access(known, sender)
        THEN Outcome("Err", "AccessDenied", EmptyMap, {}, out.work)
        ELSE out

\* [mutant] a request whose hints are not all covered is refused
GetSecretsHandler_hinted(known, es, sender, connection, setting_name, hints, flags, readable, hash_order) ==
    IF ~verify_access(known, sender) THEN AccessDenied
    ELSE LET out == get_secret(es, connection, setting_name, hints, flags, readable, hash_order)
         IN  IF out.warned # {}
             THEN Outcome("Err", "MissingHint", EmptyMap, out.warned, out.work)
             ELSE out

\* the GetSecrets method closure: dbus.rs 86-98
GetSecretsHandler(known, es, sender, connection, setting_name, hints, flags, readable, hash_order) ==
    IF ~verify_access(known, sender) THEN AccessDenied
    ELSE get_secret(es, connection, setting_name, hints, flags, readable, hash_order)

\* [mutant] a CancelGetSecrets that checks the sender first
CancelGetSecretsHandler_gated(known, sender) ==
    IF ~verify_access(known, sender) THEN AccessDenied ELSE Acknowledged

\* the CancelGetSecrets closure: dbus.rs 106-111; neither the context (sender) nor
\* the object (known names) is looked at
CancelGetSecretsHandler(known, sender) == Acknowledged

\* [mutant] a SaveSecrets that refuses callers outside the identity set
SaveSecretsHandler_gated(known, sender) ==
    IF ~verify_access(known, sender) THEN AccessDenied ELSE Acknowledged

\* the SaveSecrets closure: dbus.rs 119-124
SaveSecretsHandler(known, sender) == Acknowledged

\* the DeleteSecrets closure: dbus.rs 132-137
DeleteSecretsHandler(known, sender) == Acknowledged

\* [mutant] the new owner is added but the old one is never removed
on_name_owner_changed_keep(known, data) ==
    IF data.arg0 = NM_NAME
    THEN [known    |-> known \cup (IF data.arg2 # "" THEN {data.arg2} ELSE {}),
          register |-> data.arg2 # ""]
    ELSE [known |-> known, register |-> FALSE]

\* [mutant] the subject of the signal is not looked at
on_name_owner_changed_any(known, data) ==
    LET removed == IF data.arg1 # "" THEN known \ {data.arg1} ELSE known
    IN  [known    |-> IF data.arg2 # "" THEN removed \cup {data.arg2} ELSE removed,
         register |-> data.arg2 # ""]

\* the NameOwnerChanged closure: dbus.rs 206-221; register says whether
\* register_agent is called
on_name_owner_changed(known, data) ==
    IF data.arg0 = NM_NAME
    THEN LET removed == IF data.arg1 # "" THEN known \ {data.arg1} ELSE known
         IN  [known    |-> IF data.arg2 # "" THEN removed \cup {data.arg2} ELSE removed,
              register |-> data.arg2 # ""]
    ELSE [known |-> known, register |-> FALSE]

\* [mutant] only the unique name of the owner is kept
refresh_nm_names_owner_only(name_owner) == {name_owner}

\* refresh_nm_names: HashSet::from([name_owner, name])
refresh_nm_names(name_owner) == {name_owner, NM_NAME}

----------------------------------------------------------------------------
(* Inputs *)

\* unique bus names that may own the NetworkManager name
NMOwners == {":1.1", ":1.2"}
\* unique bus names of callers; ":1.3" never owns the NetworkManager name
UniqueNames == NMOwners \cup {":1.3"}
\* a call's sender: absent, or the unique name the bus stamped on it
Senders == {None} \cup { Some(u) : u \in UniqueNames }
\* another name whose owner changes are broadcast too
OtherNames == {"org.example.Other"}

Files == {"f1", "f2"}

KeyPsk == <<"psk">>
KeyPrivate == <<"private-key">>
KeyPeer1 == <<"peers", Dot, "PK1", Dot, "preshared-key">>
KeyPeer2 == <<"peers", Dot, "PK2", Dot, "preshared-key">>

\* a top-level key spelled like the property the peer list goes under
KeyPeers == <<"peers">>
\* a peer key whose subkey is the one the encoder fills in itself
KeyPeer1Pub == <<"peers", Dot, "PK1", Dot, "public-key">>
\* keys of two and of four parts, and a three-part key under another root
KeyTwoPart == <<"peers", Dot, "PK1">>
KeyFourPart == <<"peers", Dot, "PK1", Dot, "preshared-key", Dot, "x">>
KeyOtherRoot == <<"peer", Dot, "PK1", Dot, "preshared-key">>

\* a string and a non-string value of a connection property
PropValues == {[t |-> "s", v |-> "a"], [t |-> "u", v |-> "7"]}
ConnectionKeys == {"id", "uuid", "type", "interface-name"}
\* every PropMap over the connection keys
PropMaps == UNION { [D -> PropValues] : D \in SUBSET ConnectionKeys }
\* every connection profile: without a connection section, or with one
Profiles == {EmptyMap} \cup { ("connection" :> m) : m \in PropMaps }

GoodProfile == ("connection" :> [k \in ConnectionKeys |-> [t |-> "s", v |-> "a"]])

\* orders in which a HashMap holding the public keys of es may iterate
RECURSIVE SeqsOf(_)
SeqsOf(S) ==
    IF S = {} THEN {<<>>}
    ELSE UNION { { <<x>> \o rest : rest \in SeqsOf(S \ {x}) } : x \in S }

HashOrders(es) ==
    SeqsOf({ split_dot(es[i].key)[2] : i \in { j \in 1..Len(es) : is_peer_key(es[j].key) } })

NoCall ==
    [op |-> "none", sender |-> None, connection |-> EmptyMap, setting_name |-> "",
     hints |-> <<>>, flags |-> 0, readable |-> {}]
NoReply == Outcome("none", "", EmptyMap, {}, NoWork)
NoSignal == [arg0 |-> "", arg1 |-> "", arg2 |-> "", hadOld |-> FALSE, registered |-> "no"]

MethodCall(op, sender, connection, setting_name, hints, flags, readable) ==
    [op |-> op, sender |-> sender, connection |-> connection, setting_name |-> setting_name,
     hints |-> hints, flags |-> flags, readable |-> readable]

----------------------------------------------------------------------------
(* Mapping entries the stores are drawn from *)

EntryAny     == MappingEntry(None, None, None, None, None, KeyPsk, "f1")
EntryWgKey   == MappingEntry(None, None, None, None, Some("wireguard"), KeyPrivate, "f1")
EntryWgPeer1 == MappingEntry(None, None, None, None, Some("wireguard"), KeyPeer1, "f2")
EntryWgPeer2 == MappingEntry(None, None, None, None, Some("wireguard"), KeyPeer2, "f1")
EntryIface   == MappingEntry(None, None, None, Some("a"), None, KeyPsk, "f2")
EntryOtherId == MappingEntry(Some("b"), None, None, None, None, KeyPsk, "f2")

FetchPool == {EntryAny, EntryWgKey, EntryWgPeer1, EntryWgPeer2, EntryIface, EntryOtherId}

\* every combination of set and unset match fields
MatchPool ==
    { MappingEntry(mid, muuid, mtype, miface, msetting, KeyPsk, "f1") :
        mid \in {None, Some("a")}, muuid \in {None, Some("a")}, mtype \in {None, Some("a")},
        miface \in {None, Some("a")}, msetting \in {None, Some("a")} }

\* request strings: the configured spelling and one differing in case only
RequestStrings == {"a", "A"}

----------------------------------------------------------------------------
(* The bus (environment) *)

Subscribed == phase \in {"Subscribed", "Serving", "Reregistering"}
Alive == phase \notin {"Failed", "Crashed"}

NameOwnerChanged(name, old, new) == [arg0 |-> name, arg1 |-> old, arg2 |-> new]

\* the NetworkManager name changes hands (NetworkManager stops, starts or is replaced);
\* the bus broadcasts NameOwnerChanged to the connections that asked for it
OwnerChange ==
    /\ Alive
    /\ Subscribed => Len(signals) < MaxSignals
    /\ \E new \in ({""} \cup NMOwners) \ {nmOwner} :
          /\ nmOwner' = new
          /\ signals' = IF Subscribed
                        THEN Append(signals, NameOwnerChanged(NM_NAME, nmOwner, new))
                        ELSE signals
    /\ UNCHANGED <<phase, known_nm_names, entries, regCalls, lastSignal, call, reply, lock>>

\* some other name changes hands
OtherNameChange ==
    /\ Subscribed
    /\ Len(signals) < MaxSignals
    /\ \E name \in OtherNames, old \in {""} \cup NMOwners, new \in {""} \cup NMOwners :
          /\ old # new
          /\ signals' = Append(signals, NameOwnerChanged(name, old, new))
    /\ UNCHANGED <<phase, known_nm_names, entries, nmOwner, regCalls, lastSignal, call, reply, lock>>

----------------------------------------------------------------------------
(* dbus.rs: run() *)

\* dbus.rs 142-143: the write guard is taken and refresh_nm_names sends GetNameOwner
SeedBegin ==
    /\ phase = "Start"
    /\ lock = "free"
    /\ lock' = "write"
    /\ phase' = "Seeding"
    /\ UNCHANGED <<known_nm_names, entries, nmOwner, signals, regCalls, lastSignal, call, reply>>

\* dbus.rs 141-144: GetNameOwner answers with the owner, the set is replaced and the
\* guard dropped at the end of the block
SeedOk ==
    /\ phase = "Seeding"
    /\ nmOwner # ""
    /\ known_nm_names' = refresh_nm_names(nmOwner)
    /\ lock' = "free"
    /\ phase' = "Seeded"
    /\ UNCHANGED <<entries, nmOwner, signals, regCalls, lastSignal, call, reply>>

\* dbus.rs 143: GetNameOwner fails (no owner, or the call itself fails); run() returns Err
SeedFail ==
    /\ phase = "Seeding"
    /\ lock' = "free"
    /\ phase' = "Failed"
    /\ UNCHANGED <<known_nm_names, entries, nmOwner, signals, regCalls, lastSignal, call, reply>>

\* dbus.rs 145: register_agent, answered Ok by whoever owns the NetworkManager name
RegisterOk ==
    /\ phase = "Seeded"
    /\ nmOwner # ""
    /\ regCalls < MaxRegCalls
    /\ regCalls' = regCalls + 1
    /\ phase' = "Registered"
    /\ UNCHANGED <<known_nm_names, entries, nmOwner, signals, lastSignal, call, reply, lock>>

\* dbus.rs 145: register_agent fails; run() returns Err
RegisterFail ==
    /\ phase = "Seeded"
    /\ regCalls < MaxRegCalls
    /\ regCalls' = regCalls + 1
    /\ phase' = "Failed"
    /\ UNCHANGED <<known_nm_names, entries, nmOwner, signals, lastSignal, call, reply, lock>>

\* dbus.rs 146: register_signals adds the match rule
SubscribeOk ==
    /\ phase = "Registered"
    /\ phase' = "Subscribed"
    /\ UNCHANGED <<known_nm_names, entries, nmOwner, signals, regCalls, lastSignal, call, reply, lock>>

\* dbus.rs 222: match_signal fails; run() returns Err
SubscribeFail ==
    /\ phase = "Registered"
    /\ phase' = "Failed"
    /\ UNCHANGED <<known_nm_names, entries, nmOwner, signals, regCalls, lastSignal, call, reply, lock>>

\* [mutant] the serve loop is entered right after the seed
Serve_early ==
    /\ phase \in {"Seeded", "Subscribed"}
    /\ phase' = "Serving"
    /\ UNCHANGED <<known_nm_names, entries, nmOwner, signals, regCalls, lastSignal, call, reply, lock>>

\* dbus.rs 148-155: the object is inserted and cross.serve() starts dispatching
Serve ==
    /\ phase = "Subscribed"
    /\ phase' = "Serving"
    /\ UNCHANGED <<known_nm_names, entries, nmOwner, signals, regCalls, lastSignal, call, reply, lock>>

\* the serve loop hands the oldest queued signal to the NameOwnerChanged closure
\* (dbus.rs 206-221). For the NetworkManager name the closure takes the write guard and
\* changes the set; with a new owner it then sends the registration call, the guard
\* still in scope (it is dropped at the end of the if block, dbus.rs 219). Otherwise the
\* closure returns with the lock free.
DeliverSignal ==
    /\ phase = "Serving"
    /\ lock = "free"
    /\ Len(signals) > 0
    /\ LET data == Head(signals)
           out  == on_name_owner_changed(known_nm_names, data)
       IN  /\ signals' = Tail(signals)
           /\ known_nm_names' = out.known
           /\ lastSignal' = [arg0 |-> data.arg0, arg1 |-> data.arg1, arg2 |-> data.arg2,
                             hadOld |-> data.arg1 \in known_nm_names,
                             registered |-> IF out.register THEN "pending" ELSE "no"]
           /\ IF out.register
              THEN /\ regCalls < MaxRegCalls
                   /\ regCalls' = regCalls + 1
                   /\ lock' = "write"
                   /\ phase' = "Reregistering"
              ELSE UNCHANGED <<regCalls, phase, lock>>
    /\ UNCHANGED <<entries, nmOwner, call, reply>>

\* dbus.rs 217: register_agent returns Ok (answered by the owner of the NetworkManager
\* name), the closure returns and drops the guard
ReregisterOk ==
    /\ phase = "Reregistering"
    /\ nmOwner # ""
    /\ lastSignal' = [lastSignal EXCEPT !.registered = "ok"]
    /\ lock' = "free"
    /\ phase' = "Serving"
    /\ UNCHANGED <<known_nm_names, entries, nmOwner, signals, regCalls, call, reply>>

\* [mutant] a failed re-registration is logged and the agent goes on serving
ReregisterFail_logged ==
    /\ phase = "Reregistering"
    /\ lastSignal' = [lastSignal EXCEPT !.registered = "failed"]
    /\ lock' = "free"
    /\ phase' = "Serving"
    /\ UNCHANGED <<known_nm_names, entries, nmOwner, signals, regCalls, call, reply>>

\* dbus.rs 217: register_agent returns Err and expect() panics: the panic unwinds out of
\* cross.serve() and ends the process
ReregisterFail ==
    /\ phase = "Reregistering"
    /\ lastSignal' = [lastSignal EXCEPT !.registered = "failed"]
    /\ lock' = "free"
    /\ phase' = "Crashed"
    /\ UNCHANGED <<known_nm_names, entries, nmOwner, signals, regCalls, call, reply>>

----------------------------------------------------------------------------
(* Inbound method calls, one at a time, each run to completion *)

GetSecrets(sender, connection, setting_name, hints, flags, readable, hash_order) ==
    /\ phase = "Serving"
    /\ LET out == GetSecretsHandler(known_nm_names, entries, sender, connection,
                                    setting_name, hints, flags, readable, hash_order)
       IN  /\ call' = MethodCall("GetSecrets", sender, connection, setting_name, hints,
                                 flags, readable)
           /\ reply' = out
           \* a panic in the handler unwinds out of cross.serve() and ends the process
           /\ phase' = IF out.status = "Panic" THEN "Crashed" ELSE phase
    /\ UNCHANGED <<known_nm_names, entries, nmOwner, signals, regCalls, lastSignal, lock>>

CancelGetSecrets(sender, setting_name) ==
    /\ phase = "Serving"
    /\ call' = MethodCall("CancelGetSecrets", sender, EmptyMap, setting_name, <<>>, 0, {})
    /\ reply' = CancelGetSecretsHandler(known_nm_names, sender)
    /\ UNCHANGED <<phase, known_nm_names, entries, nmOwner, signals, regCalls, lastSignal, lock>>

SaveSecrets(sender, connection) ==
    /\ phase = "Serving"
    /\ call' = MethodCall("SaveSecrets", sender, connection, "", <<>>, 0, {})
    /\ reply' = SaveSecretsHandler(known_nm_names, sender)
    /\ UNCHANGED <<phase, known_nm_names, entries, nmOwner, signals, regCalls, lastSignal, lock>>

DeleteSecrets(sender, connection) ==
    /\ phase = "Serving"
    /\ call' = MethodCall("DeleteSecrets", sender, connection, "", <<>>, 0, {})
    /\ reply' = DeleteSecretsHandler(known_nm_names, sender)
    /\ UNCHANGED <<phase, known_nm_names, entries, nmOwner, signals, regCalls, lastSignal, lock>>

----------------------------------------------------------------------------
(* Spec: the agent from start-up on, with the bus around it *)

Init ==
    /\ phase = "Start"
    /\ known_nm_names = {}
    /\ entries = <<EntryAny>>
    /\ nmOwner \in {""} \cup NMOwners
    /\ signals = <<>>
    /\ regCalls = 0
    /\ lastSignal = NoSignal
    /\ call = NoCall
    /\ reply = NoReply
    /\ lock = "free"

Next ==
    \/ OwnerChange
    \/ OtherNameChange
    \/ SeedBegin
    \/ SeedOk
    \/ SeedFail
    \/ RegisterOk
    \/ RegisterFail
    \/ SubscribeOk
    \/ SubscribeFail
    \/ Serve
    \/ DeliverSignal
    \/ ReregisterOk
    \/ ReregisterFail
    \/ \E sender \in Senders :
          GetSecrets(sender, GoodProfile, "802-11-wireless-security", <<>>, 0, Files, <<>>)
    \/ \E sender \in Senders, setting_name \in {"802-11-wireless-security", "wireguard"} :
          CancelGetSecrets(sender, setting_name)
    \/ \E sender \in Senders, connection \in {GoodProfile, EmptyMap} :
          SaveSecrets(sender, connection)
    \/ \E sender \in Senders, connection \in {GoodProfile, EmptyMap} :
          DeleteSecrets(sender, connection)

Spec == Init /\ [][Next]_vars

---------------------------------------------------------------------------------------------------------------------------------------------------
(* SpecMatch: find_matching_secrets applied to every store and request *)

MatchRequest(op, conn_id, conn_uuid, conn_type, iface_name, setting_name) ==
    [op |-> op, conn_id |-> conn_id, conn_uuid |-> conn_uuid, conn_type |-> conn_type,
     iface_name |-> iface_name, setting_name |-> setting_name]

\* the request in call is looked up in the store
FindMatches ==
    /\ call.op = "request"
    /\ call' = [call EXCEPT !.op = "find_matching_secrets"]
    /\ reply' = find_matching_secrets(entries, call.conn_id, call.conn_uuid, call.conn_type,
                                      call.iface_name, call.setting_name)
    /\ UNCHANGED <<phase, known_nm_names, entries, nmOwner, signals, regCalls, lastSignal, lock>>

InitMatch ==
    /\ phase = "Serving"
    /\ known_nm_names = refresh_nm_names(":1.1")
    /\ entries \in Stores(MatchPool, MaxMatchEntries)
    /\ nmOwner = ":1.1"
    /\ signals = <<>>
    /\ regCalls = 1
    /\ lastSignal = NoSignal
    /\ call \in { MatchRequest("request", conn_id, conn_uuid, conn_type, iface_name, setting_name) :
                    conn_id \in RequestStrings, conn_uuid \in RequestStrings,
                    conn_type \in RequestStrings,
                    iface_name \in {None} \cup { Some(i) : i \in RequestStrings },
                    setting_name \in RequestStrings }
    /\ reply = <<>>
    /\ lock = "free"

NextMatch == FindMatches

SpecMatch == InitMatch /\ [][NextMatch]_vars

----------------------------------------------------------------------------
(* SpecFetch: GetSecrets calls on a serving agent, over every store, profile and file state *)

Settings == {"wireguard", "802-11-wireless-security"}
FlagValues == 0..3
HintLists == {<<KeyPsk>>}
FetchSenders == {None, Some(":1.1"), Some(":1.3")}

\* the calls the bus may hold for the agent
FetchCalls ==
    { MethodCall("GetSecrets", sender, connection, setting_name, hints, flags, readable) :
        sender \in FetchSenders, connection \in Profiles, setting_name \in Settings,
        hints \in HintLists, flags \in FlagValues, readable \in SUBSET Files }

\* calls that arrive after the first one was answered
LaterCalls ==
    { MethodCall("GetSecrets", Some(":1.1"), GoodProfile, setting_name, <<KeyPsk>>, 0, Files) :
        setting_name \in Settings }

\* the serve loop dispatches the call the bus holds (reply "none": not answered yet)
DispatchGetSecrets ==
    /\ call.op = "GetSecrets"
    /\ reply.status = "none"
    /\ \E hash_order \in HashOrders(entries) :
          GetSecrets(call.sender, call.connection, call.setting_name, call.hints,
                     call.flags, call.readable, hash_order)

\* the next call reaches the bus
LaterCall ==
    /\ Alive
    /\ reply.status # "none"
    /\ call \notin LaterCalls
    /\ call' \in LaterCalls
    /\ reply' = NoReply
    /\ UNCHANGED <<phase, known_nm_names, entries, nmOwner, signals, regCalls, lastSignal, lock>>

InitFetch ==
    /\ phase = "Serving"
    /\ known_nm_names = refresh_nm_names(":1.1")
    /\ entries \in Stores(FetchPool, MaxEntries)
    /\ nmOwner = ":1.1"
    /\ signals = <<>>
    /\ regCalls = 1
    /\ lastSignal = NoSignal
    /\ call \in FetchCalls
    /\ reply = NoReply
    /\ lock = "free"

NextFetch == DispatchGetSecrets \/ LaterCall

SpecFetch == InitFetch /\ [][NextFetch]_vars

----------------------------------------------------------------------------
(* SpecHints: GetSecrets calls that differ in their hints *)

\* hint lists a caller may send
HintChoices == {<<>>, <<KeyPsk>>, <<KeyPrivate>>, <<KeyPeer1, KeyPsk>>}

HintsPool == {EntryAny, EntryWgKey, EntryWgPeer1, EntryWgPeer2}

\* a profile without a connection section, one whose uuid is no string, a complete one
HintsProfiles ==
    {EmptyMap, GoodProfile,
     ("connection" :> [k \in ConnectionKeys |->
                          IF k = "uuid" THEN [t |-> "u", v |-> "7"] ELSE [t |-> "s", v |-> "a"]])}

HintsCalls ==
    { MethodCall("GetSecrets", sender, connection, setting_name, hints, flags, readable) :
        sender \in {Some(":1.1"), Some(":1.3")}, connection \in HintsProfiles,
        setting_name \in Settings, hints \in HintChoices, flags \in {0, RequestNew},
        readable \in SUBSET Files }

InitHints ==
    /\ phase = "Serving"
    /\ known_nm_names = refresh_nm_names(":1.1")
    /\ entries \in Stores(HintsPool, MaxEntries)
    /\ nmOwner = ":1.1"
    /\ signals = <<>>
    /\ regCalls = 1
    /\ lastSignal = NoSignal
    /\ call \in HintsCalls
    /\ reply = NoReply
    /\ lock = "free"

NextHints == DispatchGetSecrets

SpecHints == InitHints /\ [][NextHints]_vars

----------------------------------------------------------------------------
(* SpecFlags: GetSecrets calls with every combination of the four flag bits *)

\* GetSecretsFlags: AllowInteraction 0x1, RequestNew 0x2, UserRequested 0x4,
\* WbsPbcActive 0x8 and their unions
AllFlags == 0..15

FlagsPool == {EntryAny, EntryOtherId, EntryWgKey}

FlagsCalls ==
    { MethodCall("GetSecrets", sender, connection, setting_name, <<KeyPsk>>, flags, readable) :
        sender \in {Some(":1.1"), Some(":1.3")}, connection \in HintsProfiles,
        setting_name \in Settings, flags \in AllFlags, readable \in SUBSET Files }

InitFlags ==
    /\ phase = "Serving"
    /\ known_nm_names = refresh_nm_names(":1.1")
    /\ entries \in Stores(FlagsPool, MaxEntries)
    /\ nmOwner = ":1.1"
    /\ signals = <<>>
    /\ regCalls = 1
    /\ lastSignal = NoSignal
    /\ call \in FlagsCalls
    /\ reply = NoReply
    /\ lock = "free"

NextFlags == DispatchGetSecrets

SpecFlags == InitFlags /\ [][NextFlags]_vars

----------------------------------------------------------------------------
(* SpecEncode: the encoders applied to every secret list and setting name *)

SecretKeys ==
    {KeyPrivate, KeyPeers, KeyPeer1, KeyPeer2, KeyPeer1Pub, KeyTwoPart, KeyFourPart, KeyOtherRoot}
\* values are texts, like the public keys taken out of the keys
SecretValues == {<<"P">>, <<"S">>}
\* struct Secret { key, value }
Secrets == { [key |-> k, value |-> v] : k \in SecretKeys, v \in SecretValues }
\* the non-empty secret lists (get_secret returns early on an empty one)
SecretLists == UNION { [1..k -> Secrets] : k \in 1..MaxSecrets }
\* setting names: the WireGuard one, one differing in case only, and another one
EncodeSettings == {"wireguard", "Wireguard", "802-11-wireless-security"}

EncodeRequest(op, setting_name, secrets) ==
    [op |-> op, setting_name |-> setting_name, secrets |-> secrets]
NoEncoding == [props |-> EmptyMap, inserted_keys |-> {}]

\* the secret list in call is encoded; the HashMap of peers iterates in some order
Encode ==
    /\ call.op = "secrets"
    /\ call' = [call EXCEPT !.op = "encode"]
    /\ \E hash_order \in HashOrders(call.secrets) :
          reply' = encode(call.setting_name, call.secrets, hash_order)
    /\ UNCHANGED <<phase, known_nm_names, entries, nmOwner, signals, regCalls, lastSignal, lock>>

\* the same list is encoded once more (a second request for the same connection): a new
\* HashMap of peers, iterating in some order
Reencode ==
    /\ call.op = "encode"
    /\ \E hash_order \in HashOrders(call.secrets) :
          reply' = encode(call.setting_name, call.secrets, hash_order)
    /\ UNCHANGED <<phase, known_nm_names, entries, nmOwner, signals, regCalls, lastSignal, lock, call>>

InitEncode ==
    /\ phase = "Serving"
    /\ known_nm_names = refresh_nm_names(":1.1")
    /\ entries = <<>>
    /\ nmOwner = ":1.1"
    /\ signals = <<>>
    /\ regCalls = 1
    /\ lastSignal = NoSignal
    /\ call \in { EncodeRequest("secrets", setting_name, secrets) :
                    setting_name \in EncodeSettings, secrets \in SecretLists }
    /\ reply = NoEncoding
    /\ lock = "free"

NextEncode == Encode \/ Reencode

SpecEncode == InitEncode /\ [][NextEncode]_vars

----------------------------------------------------------------------------
(* Properties: sender verification and the identity set (under Spec) *)

\* the step is an inbound method call (only those change call or reply)
MethodCallStep == <<call, reply>>' # <<call, reply>>

\* the sender of the call being made is absent or not in the identity set as it is
\* when the call is made
SenderNotKnown == call'.sender = None \/ \A s \in call'.sender : s \notin known_nm_names

\* C1: a GetSecrets call is denied exactly when it carries no sender or its sender is not
\* a member of the identity set at the time of the call, and is let through otherwise;
\* nothing else enters the decision.
C1_VerifyAccessDecision ==
    [][ (MethodCallStep /\ call'.op = "GetSecrets")
          => /\ SenderNotKnown => (reply'.status = "Err" /\ reply'.error = "AccessDenied")
             /\ ~SenderNotKnown => reply'.error # "AccessDenied" ]_vars

\* C1 witness: a call from a member of the identity set was let through
C1_Witness ==
    /\ call.op = "GetSecrets"
    /\ \E s \in call.sender : s \in known_nm_names
    /\ reply.status = "Ok"
    /\ reply.work.extracted

\* C3 as claimed: each of the four operations denies a sender that is absent or not a
\* member of the identity set.
C3_AllFourGated ==
    [][ (MethodCallStep /\ SenderNotKnown
         /\ call'.op \in {"GetSecrets", "CancelGetSecrets", "SaveSecrets", "DeleteSecrets"})
          => reply'.error = "AccessDenied" ]_vars

\* C3 amended: only GetSecrets is gated against the identity set; CancelGetSecrets,
\* SaveSecrets and DeleteSecrets are acknowledged whoever the sender is.
C3_OnlyGetSecretsGated ==
    [][ MethodCallStep
          => /\ (call'.op = "GetSecrets" /\ SenderNotKnown) => reply'.error = "AccessDenied"
             /\ call'.op \in {"CancelGetSecrets", "SaveSecrets", "DeleteSecrets"}
                  => reply'.status = "Ok" ]_vars

\* C3 witness: a CancelGetSecrets call from a sender outside the identity set was
\* acknowledged
C3_Witness ==
    /\ call.op = "CancelGetSecrets"
    /\ call.sender # None
    /\ \A s \in call.sender : s \notin known_nm_names
    /\ reply.status = "Ok"

\* the step hands the oldest queued signal to the NameOwnerChanged closure (the only
\* step that shortens the queue)
SignalStep == Len(signals) > 0 /\ signals' = Tail(signals)

\* C4: after a NameOwnerChanged for the NetworkManager name with old = A a member and
\* A non-empty: if new = B is non-empty, A is no member any more, B is one and exactly
\* one registration call was made; if new is empty, A is removed, nothing is added and
\* no registration call is made.
C4_IdentityChange ==
    [][ (SignalStep /\ Head(signals).arg0 = NM_NAME /\ Head(signals).arg1 # ""
         /\ Head(signals).arg1 \in known_nm_names)
          => IF Head(signals).arg2 # ""
             THEN /\ Head(signals).arg1 \notin known_nm_names'
                  /\ Head(signals).arg2 \in known_nm_names'
                  /\ regCalls' = regCalls + 1
             ELSE /\ known_nm_names' = known_nm_names \ {Head(signals).arg1}
                  /\ regCalls' = regCalls ]_vars

\* C4 witness: the name went from a member A straight to B, and the agent went on serving
C4_Witness ==
    /\ phase = "Serving"
    /\ lastSignal.arg0 = NM_NAME
    /\ lastSignal.arg1 # "" /\ lastSignal.arg2 # ""
    /\ lastSignal.hadOld
    /\ lastSignal.arg2 \in known_nm_names
    /\ regCalls = 2

----------------------------------------------------------------------------
(* Properties: matching (under SpecMatch) *)

Looked == call.op = "find_matching_secrets"

\* the matching rule as the specification words it: every populated match field of the
\* entry is present in the request and equal to it
RuleMatches(e, req) ==
    /\ \A val \in e.match_id : val = req.conn_id
    /\ \A val \in e.match_uuid : val = req.conn_uuid
    /\ \A val \in e.match_type : val = req.conn_type
    /\ \A val \in e.match_iface : req.iface_name = Some(val)
    /\ \A val \in e.match_setting : val = req.setting_name

AllUnset(e) ==
    /\ e.match_id = None /\ e.match_uuid = None /\ e.match_type = None
    /\ e.match_iface = None /\ e.match_setting = None

\* C5 as claimed: only entries whose every populated match field equals the request's
\* field are returned, and an entry with all five match fields unset is returned for
\* every request.
C5_OnlyExactMatches ==
    Looked =>
        /\ \A k \in 1..Len(reply) : RuleMatches(reply[k], call)
        /\ \A i \in 1..Len(entries) :
              AllUnset(entries[i]) => \E k \in 1..Len(reply) : reply[k] = entries[i]

\* C6 as claimed: for a request without an interface name no entry whose match_iface is
\* set is returned, and an entry whose match_iface is unset and whose other set fields
\* match is returned.
C6_NoIfaceNeverMatchesIfaceEntry ==
    (Looked /\ call.iface_name = None) =>
        /\ \A k \in 1..Len(reply) : reply[k].match_iface = None
        /\ \A i \in 1..Len(entries) :
              (entries[i].match_iface = None /\ RuleMatches(entries[i], call))
                  => \E k \in 1..Len(reply) : reply[k] = entries[i]

\* the store positions the filter lets through
MatchingPositions ==
    { i \in 1..Len(entries) :
        entry_matches(entries[i], call.conn_id, call.conn_uuid, call.conn_type,
                      call.iface_name, call.setting_name) }

\* the k-th smallest element of a set of positions
NthPosition(S, k) == CHOOSE i \in S : Cardinality({ j \in S : j < i }) = k - 1

----------------------------------------------------------------------------
(* Properties: GetSecrets (under SpecFetch, where the identity set does not change) *)

\* a GetSecrets call was dispatched and its handler ran
Answered == call.op = "GetSecrets" /\ reply.status # "none"

Authorized == \E s \in call.sender : s \in known_nm_names

\* property k of the connection section is there and is a string
IsString(profile, k) ==
    /\ "connection" \in DOMAIN profile
    /\ k \in DOMAIN profile["connection"]
    /\ profile["connection"][k].t = "s"

\* id, uuid and type are strings and interface-name, when there, is a string
WellFormed(profile) ==
    /\ IsString(profile, "id") /\ IsString(profile, "uuid") /\ IsString(profile, "type")
    /\ "interface-name" \in DOMAIN profile["connection"] => IsString(profile, "interface-name")

\* what find_matches returns for the call's request (step 2 of resolve)
Matched ==
    LET c == call.connection["connection"]
    IN  find_matching_secrets(entries, c["id"].v, c["uuid"].v, c["type"].v,
                              IF "interface-name" \in DOMAIN c
                              THEN Some(c["interface-name"].v) ELSE None,
                              call.setting_name)

\* bit 0x2 of the flags
RequestNewSet == (call.flags \div 2) % 2 = 1

\* C2: a GetSecrets call whose sender fails the verification is answered AccessDenied
\* and nothing was done for it: no profile field extracted, the store not searched, no
\* file opened.
C2_DeniedDoesNoWork ==
    (Answered /\ ~Authorized) =>
        /\ reply.status = "Err" /\ reply.error = "AccessDenied"
        /\ ~reply.work.extracted /\ ~reply.work.searched /\ reply.work.reads = <<>>
        /\ phase = "Serving"

\* C2 witness: a stranger's call was denied although the store holds an entry that
\* matches the request
C2_Witness ==
    /\ Answered /\ ~Authorized
    /\ reply.error = "AccessDenied"
    /\ WellFormed(call.connection) /\ ~RequestNewSet
    /\ Len(Matched) > 0

C10_MalformedIsAnError ==
    (Answered /\ Authorized) =>
        /\ ~(IsString(call.connection, "id") /\ IsString(call.connection, "uuid")
             /\ IsString(call.connection, "type"))
              => (reply.status = "Err" /\ reply.error = "MalformedRequest"
                  /\ phase = "Serving")
        /\ (WellFormed(call.connection)
            /\ "interface-name" \notin DOMAIN call.connection["connection"])
              => reply.error # "MalformedRequest"

----------------------------------------------------------------------------
(* Properties: the encoders (under SpecEncode) *)

Encoded == call.op = "encode"

\* the positions of the dots of a key
DotsOf(key) == { i \in 1..Len(key) : key[i] = Dot }

\* the exact three-part form peers.<pubkey>.<subkey>
PeerForm(key) == Cardinality(DotsOf(key)) = 2 /\ Len(key) >= 2 /\ key[1] = "peers" /\ key[2] = Dot

SecondDot(key) == CHOOSE i \in DotsOf(key) : \A j \in DotsOf(key) : j <= i
PubkeyOf(key) == SubSeq(key, 3, SecondDot(key) - 1)
SubkeyOf(key) == SubSeq(key, SecondDot(key) + 1, Len(key))

\* positions of the input list holding peer-form keys, and the others
PeerPositions == { i \in 1..Len(call.secrets) : PeerForm(call.secrets[i].key) }
PlainPositions == (1..Len(call.secrets)) \ PeerPositions
InputKeys == { call.secrets[i].key : i \in 1..Len(call.secrets) }
InputPubkeys == { PubkeyOf(call.secrets[i].key) : i \in PeerPositions }

\* the value of the last secret of the input list whose position is in S
LastOf(S) == call.secrets[CHOOSE i \in S : \A j \in S : j <= i].value

\* the plain key k maps to the value configured for it (the last one, when it is
\* configured more than once)
PlainKeyVerbatim(k) ==
    /\ k \in DOMAIN reply.props
    /\ reply.props[k].t = "s"
    /\ reply.props[k].v = LastOf({ i \in PlainPositions : call.secrets[i].key = k })

\* "peers" holds a sequence with exactly one sub-map per public key, each sub-map holding
\* the peer's subkeys with their values and public-key = the public key
PeersSequenceRight ==
    /\ <<"peers">> \in DOMAIN reply.props
    /\ reply.props[<<"peers">>].t = "aa{sv}"
    /\ LET list == reply.props[<<"peers">>].v
       IN  /\ Len(list) = Cardinality(InputPubkeys)
           /\ \A pk \in InputPubkeys :
                 \E n \in 1..Len(list) :
                    /\ DOMAIN list[n] =
                          {<<"public-key">>} \cup
                          { SubkeyOf(call.secrets[i].key) :
                              i \in { j \in PeerPositions : PubkeyOf(call.secrets[j].key) = pk } }
                    /\ list[n][<<"public-key">>] = StrVariant(pk)
                    /\ \A sk \in (DOMAIN list[n]) \ {<<"public-key">>} :
                          list[n][sk] = StrVariant(LastOf(
                              { i \in PeerPositions : /\ PubkeyOf(call.secrets[i].key) = pk
                                                      /\ SubkeyOf(call.secrets[i].key) = sk }))

\* C11 as claimed: the WireGuard encoding maps every key that is not of the peer form
\* verbatim to its value; with a peer-form key in the input, "peers" is the sequence of
\* the peers' sub-maps, one per public key, each with public-key filled in; the inserted
\* keys are exactly the input keys.
C11_WireguardEncoding ==
    (Encoded /\ call.setting_name = "wireguard") =>
        /\ \A i \in PlainPositions : PlainKeyVerbatim(call.secrets[i].key)
        /\ PeerPositions # {} => PeersSequenceRight
        /\ reply.inserted_keys = InputKeys

\* C11 amended: as claimed, except for a plain key spelled exactly "peers" in an input
\* that also holds a peer-form key: its value is replaced by the sequence of sub-maps.
\* The map holds no other key.
C11_WireguardEncodingButPeersKey ==
    (Encoded /\ call.setting_name = "wireguard") =>
        /\ \A i \in PlainPositions :
              (call.secrets[i].key # <<"peers">> \/ PeerPositions = {})
                  => PlainKeyVerbatim(call.secrets[i].key)
        /\ PeerPositions # {} => PeersSequenceRight
        /\ DOMAIN reply.props =
              { call.secrets[i].key : i \in PlainPositions }
              \cup (IF PeerPositions # {} THEN {<<"peers">>} ELSE {})
        /\ reply.inserted_keys = InputKeys

\* C11 witness: two peers, one of them with a configured public-key subkey whose value
\* is not the public key, next to a plain key
C11_Witness ==
    /\ Encoded /\ call.setting_name = "wireguard"
    /\ Cardinality(InputPubkeys) = 2
    /\ \E i \in PeerPositions :
          /\ SubkeyOf(call.secrets[i].key) = <<"public-key">>
          /\ call.secrets[i].value # <<"PK1">>
    /\ Len(reply.props[<<"peers">>].v) = 2
    /\ reply.inserted_keys = InputKeys

\* C12: for every setting name other than exactly "wireguard" the encoding is one flat
\* map from each input key to its value as a string (the last one, when a key is
\* configured more than once), peer-form keys included, and the inserted keys are the
\* keys of that map.
C12_GenericEncoding ==
    (Encoded /\ call.setting_name # "wireguard") =>
        /\ DOMAIN reply.props = InputKeys
        /\ \A k \in InputKeys :
              reply.props[k] =
                  StrVariant(LastOf({ i \in 1..Len(call.secrets) : call.secrets[i].key = k }))
        /\ reply.inserted_keys = DOMAIN reply.props

\* C12 witness: a setting name differing from "wireguard" in case only, with peer-form
\* keys of two peers in the input: they stay top-level strings
C12_Witness ==
    /\ Encoded /\ call.setting_name = "Wireguard"
    /\ Cardinality(InputPubkeys) = 2
    /\ \A i \in PeerPositions : reply.props[call.secrets[i].key].t = "s"
    /\ <<"peers">> \notin DOMAIN reply.props

\* C15 as claimed: encoding the same secret list again yields the same result, the peers
\* sub-maps in the same order.
C15_PeersOrderDeterministic ==
    [][ (call.op = "encode" /\ call' = call) => reply' = reply ]_vars

----------------------------------------------------------------------------
(* Properties: the no-op methods, start-up and failures (under Spec) *)

NoOps == {"CancelGetSecrets", "SaveSecrets", "DeleteSecrets"}

\* C13: a CancelGetSecrets, SaveSecrets or DeleteSecrets call succeeds whatever its
\* sender and arguments and whatever the identity set is, returns nothing, reads no
\* file, and leaves the identity set, the mapping store, the registration count, the
\* lock and the agent's position unchanged.
C13_NoOpsAlwaysSucceed ==
    [][ (MethodCallStep /\ call'.op \in NoOps)
          => /\ reply'.status = "Ok" /\ reply'.error = ""
             /\ reply'.result = EmptyMap
             /\ reply'.work = NoWork
             /\ UNCHANGED <<known_nm_names, entries, regCalls, phase, lock, signals>> ]_vars

\* C13 witness: after a re-registration, a SaveSecrets call without a sender and with an
\* empty profile was acknowledged
C13_Witness ==
    /\ call.op = "SaveSecrets"
    /\ call.sender = None
    /\ call.connection = EmptyMap
    /\ reply.status = "Ok"
    /\ regCalls = 2

\* C14: a start-up that failed never serves (no call is ever answered); a failed
\* re-registration ends the process; and once failed or ended, the agent stays so and
\* answers no further call.
C14_FailureIsFatal ==
    /\ [](phase = "Failed" => call = NoCall)
    /\ [](lastSignal.registered = "failed" => phase = "Crashed")
    /\ [][(phase \in {"Failed", "Crashed"}) => (phase' = phase /\ call' = call /\ reply' = reply)]_vars

\* C14 witness: the agent answered a GetSecrets call, then a re-registration failed and
\* the process ended
C14_Witness ==
    /\ phase = "Crashed"
    /\ lastSignal.registered = "failed"
    /\ call.op = "GetSecrets"
    /\ reply.status = "Ok"

\* C17: the step that completes the seed leaves the well-known name and the name's owner
\* at that moment in the identity set, and the owner is a real (non-empty) name.
C17_SeedHoldsNameAndOwner ==
    [][ (phase = "Seeding" /\ phase' = "Seeded")
          => /\ nmOwner # ""
             /\ NM_NAME \in known_nm_names'
             /\ nmOwner \in known_nm_names' ]_vars

\* C17 witness: seeded while ":1.2" owned the name
C17_Witness ==
    /\ phase = "Seeded"
    /\ nmOwner = ":1.2"
    /\ known_nm_names = {NM_NAME, ":1.2"}

\* C18: a registration call has only been made once the identity set is seeded; a call
\* of any of the four methods has only been answered once the set is seeded and a
\* registration call was made, and it is answered in the serve loop, which is entered
\* from the subscription step only.
C18_StartupOrder ==
    /\ [](regCalls > 0 => (phase \notin {"Start", "Seeding"} /\ NM_NAME \in known_nm_names))
    /\ [](call.op # "none" => (regCalls > 0 /\ NM_NAME \in known_nm_names))
    /\ [][MethodCallStep => (phase = "Serving")]_vars
    /\ [][(phase # "Serving" /\ phase' = "Serving") => (phase \in {"Subscribed", "Reregistering"})]_vars

\* C18 witness: the first call answered, after one registration
C18_Witness ==
    /\ phase = "Serving"
    /\ regCalls = 1
    /\ call.op = "CancelGetSecrets"
    /\ reply.status = "Ok"

\* C19 as claimed: no lock on the identity set is held while I/O is in progress: while
\* the identity query or the registration call of the signal handler is outstanding, and
\* when files were read for a GetSecrets call.
C19_NoLockHeldDuringIO ==
    /\ phase \in {"Seeding", "Reregistering"} => lock = "free"
    /\ reply.work.reads # <<>> => lock = "free"

\* C20: a NameOwnerChanged signal for a name other than the NetworkManager name changes
\* nothing: the identity set, the registration count, the lock and the agent's position
\* stay as they are, whatever the old and new owners in the signal.
C20_OtherSubjectIgnored ==
    [][ (SignalStep /\ Head(signals).arg0 # NM_NAME)
          => UNCHANGED <<known_nm_names, regCalls, phase, lock>> ]_vars

\* C20 witness: a signal for another name, whose old owner is a member of the identity
\* set and whose new owner is not empty, was handled: the old owner is still a member
C20_Witness ==
    /\ phase = "Serving"
    /\ lastSignal.arg0 \in OtherNames
    /\ lastSignal.hadOld
    /\ lastSignal.arg1 \in known_nm_names
    /\ lastSignal.arg2 # ""
    /\ lastSignal.arg2 \notin known_nm_names

----------------------------------------------------------------------------
(* Properties: the hints (under SpecHints) *)

\* what the caller gets back: success or error, and the settings map
Returned(out) == <<out.status, out.error, out.result>>

\* everything the call in call may return when sent with the given hints (one result per
\* iteration order of the peers)
ReturnedWith(hints) ==
    { Returned(GetSecretsHandler(known_nm_names, entries, call.sender, call.connection,
                                 call.setting_name, hints, call.flags, call.readable,
                                 hash_order)) : hash_order \in HashOrders(entries) }

\* C16: what a GetSecrets call returns does not depend on its hints: sent with any other
\* hint list, the same call returns the same (success or error, settings map); hints
\* that are not among the inserted keys are only warned about, on a successful call.
C16_HintsDoNotChangeResult ==
    Answered =>
        /\ Returned(reply) \in ReturnedWith(call.hints)
        /\ \A hints \in HintChoices : ReturnedWith(hints) = ReturnedWith(call.hints)
        /\ reply.warned # {} =>
              (reply.status = "Ok" /\ \A h \in reply.warned : \E i \in 1..Len(call.hints) : call.hints[i] = h)

\* C16 witness: a WireGuard request hinting at a peer's key and at psk got the peer's
\* secret, and psk, which is not among the secrets, was warned about
C16_Witness ==
    /\ Answered /\ Authorized
    /\ call.setting_name = "wireguard"
    /\ call.hints = <<KeyPeer1, KeyPsk>>
    /\ reply.status = "Ok"
    /\ DOMAIN reply.result = {"wireguard"}
    /\ KeyPsk \notin DOMAIN reply.result["wireguard"]
    /\ reply.warned = {KeyPsk}

----------------------------------------------------------------------------
(* Properties: the request flags (under SpecFlags) *)

\* C21: an authorized, well-formed GetSecrets call is rejected with UnsupportedFlag
\* exactly when bit 0x2 of its flags is set, whatever the bits 0x1, 0x4 and 0x8 are; a
\* rejected call searched no entry and opened no file; a call without the bit whose
\* matched files are all readable succeeds.
C21_RequestNewRejected ==
    (Answered /\ Authorized /\ WellFormed(call.connection)) =>
        /\ (reply.status = "Err" /\ reply.error = "UnsupportedFlag") <=> RequestNewSet
        /\ RequestNewSet =>
              (~reply.work.searched /\ reply.work.reads = <<>> /\ reply.result = EmptyMap)
        /\ (~RequestNewSet /\ \A i \in 1..Len(Matched) : Matched[i].file \in call.readable)
              => reply.status = "Ok"

\* C21 witness: flags 0x2|0x4|0x8 on a request with a matching entry whose file is
\* unreadable: rejected for the flag, with no file opened
C21_Witness ==
    /\ Answered /\ Authorized /\ WellFormed(call.connection)
    /\ call.flags = 14
    /\ \E i \in 1..Len(Matched) : Matched[i].file \notin call.readable
    /\ reply.error = "UnsupportedFlag"
    /\ reply.work.reads = <<>>

----------------------------------------------------------------------------
(* Properties: the identity set against the bus (under Spec) *)

\* C22 as claimed: whenever the agent is serving and every owner change it was notified
\* of has been handled, the current owner of the NetworkManager name is a member of the
\* identity set and no other unique name (a former owner) is.
C22_IdentitySetTracksOwner ==
    (phase = "Serving" /\ signals = <<>>) =>
        /\ nmOwner # "" => nmOwner \in known_nm_names
        /\ \A former \in NMOwners \ {nmOwner} : former \notin known_nm_names

----------------------------------------------------------------------------
(* Properties: a secret named "peers" (under SpecEncode) *)

\* the positions of the input list holding the plain key "peers"
PeersKeyPositions == { i \in PlainPositions : call.secrets[i].key = <<"peers">> }

\* C23: in the WireGuard encoding of a list with a peer-form key, "peers" holds the
\* sequence of peer sub-maps also when the list holds a plain secret spelled "peers":
\* that secret's value is under no key of the map unless another plain secret put it
\* there, and "peers" is among the inserted keys all the same.
C23_PeersKeyOverwritten ==
    (Encoded /\ call.setting_name = "wireguard" /\ PeerPositions # {}) =>
        /\ PeersSequenceRight
        /\ \A i \in PeersKeyPositions :
              /\ <<"peers">> \in reply.inserted_keys
              /\ \A k \in DOMAIN reply.props :
                    (reply.props[k].t = "s" /\ reply.props[k].v = call.secrets[i].value)
                        => \E j \in PlainPositions \ PeersKeyPositions :
                              /\ call.secrets[j].key = k
                              /\ call.secrets[j].value = call.secrets[i].value

\* C23 witness: a plain secret "peers", listed after the peer's key, and a private key
\* with another value: the map holds the peer list and the private key only
C23_Witness ==
    /\ Encoded /\ call.setting_name = "wireguard"
    /\ Len(call.secrets) = 3
    /\ call.secrets[1] = [key |-> KeyPeer1, value |-> <<"S">>]
    /\ call.secrets[2] = [key |-> KeyPeers, value |-> <<"S">>]
    /\ call.secrets[3] = [key |-> KeyPrivate, value |-> <<"P">>]
    /\ DOMAIN reply.props = {KeyPeers, KeyPrivate}
    /\ reply.props[KeyPeers].t = "aa{sv}"
    /\ KeyPeers \in reply.inserted_keys

====
